---- MODULE Spec2Model ----
(***************************************************************************)
(* mini-lang: a stack-oriented scripting language.                         *)
(*   interpreter/lexer.py       source text  -> tokens                     *)
(*   interpreter/parser.py      tokens       -> AST                        *)
(*   interpreter/evaluation.py  AST          -> operand stack (RunTime)    *)
(*   interpreter/builtins.py    the builtin registry                       *)
(*                                                                         *)
(* AST nodes and runtime values are records tagged by the field k, which   *)
(* holds the Python class name of the node ("Expr", "Quot", ...) or the    *)
(* kind of the value ("int", "float", "list").  A Quot node is pushed on   *)
(* the stack as itself, as in visit_quot.                                  *)
(***************************************************************************)
EXTENDS Integers, Sequences, FiniteSets, TLC

VARIABLES
    rt,         \* the session's RunTime machine: frames, Python call chain, outcome
    line,       \* the Program the session is evaluating (or evaluated last)
    pre,        \* the root frame as it was when `line` was handed to evaluate
    nlines,     \* number of lines the session has read
    direct,     \* SpecQuot: the machine evaluating E itself
    deferred,   \* SpecQuot: the machine evaluating [E] \
    qexpr,      \* SpecQuot: the expression E
    qnear,      \* SpecQuot: E itself entered a resolution one below the ceiling
    lex,        \* SpecLex: the Lexer object and the tokens list of Lexer.parse
    par         \* SpecParse: the Parser object and the Program of _parse_program

vars == <<rt, line, pre, nlines, direct, deferred, qexpr, qnear, lex, par>>

-----------------------------------------------------------------------------
(* AST nodes (parser.py)                                                   *)

Program(stmts) == [k |-> "Program", statements |-> stmts]
Expr(as) == [k |-> "Expr", atoms |-> as]
Decl(w, e) == [k |-> "Decl", word |-> w, expr |-> e]
Literal(c) == [k |-> "Literal", content |-> c]
Identifier(n) == [k |-> "Identifier", name |-> n]
List(e) == [k |-> "List", items |-> e]
Quot(e) == [k |-> "Quot", expr |-> e]

(* Runtime values.  Numbers are kept as the fraction n/d: an int has d = 1 *)
(* and kind "int"; a float (the result of Python's true division, or of    *)
(* arithmetic with a float operand) has kind "float".  Floats are exact    *)
(* fractions here; binary rounding is not modelled.                        *)
IntV(n) == [k |-> "int", n |-> n, d |-> 1]
FloatV(n, d) == [k |-> "float", n |-> n, d |-> d]
ListV(s) == [k |-> "list", items |-> s]

IsNumber(v) == v.k \in {"int", "float"}

-----------------------------------------------------------------------------
(* Exceptions.  kind is the Python class of the exception raised.          *)

NoError == [kind |-> "none", msg |-> "", a |-> 0, b |-> 0, name |-> ""]
RunTimeError(m, x, y, n) == [kind |-> "RunTimeError", msg |-> m, a |-> x, b |-> y, name |-> n]
PyError(kd) == [kind |-> kd, msg |-> "", a |-> 0, b |-> 0, name |-> ""]

ExpectedItems(n, m) == RunTimeError("Expected N items on stack but got M", n, m, "")
MaxRecursion == RunTimeError("Maximum recursion depth reached", 0, 0, "")
UnknownIdentifier(n) == RunTimeError("Unknown identifier", 0, 0, n)

-----------------------------------------------------------------------------
(* Sequence helpers                                                        *)

Last(s) == s[Len(s)]
Front(s) == SubSeq(s, 1, Len(s) - 1)
Top(s, i) == s[Len(s) - i + 1]          \* i-th value from the top, 1 = top
Drop(s, n) == SubSeq(s, 1, Len(s) - n)  \* s without its top n values

RECURSIVE Repeat(_, _)
Repeat(s, n) == IF n <= 0 THEN <<>> ELSE s \o Repeat(s, n - 1)

-----------------------------------------------------------------------------
(* Python arithmetic on the values the stack can hold (builtins.py:31-60)  *)

Abs(x) == IF x < 0 THEN -x ELSE x

RECURSIVE Gcd(_, _)
Gcd(x, y) == IF y = 0 THEN x ELSE Gcd(y, x % y)

(* n/d with d # 0, reduced, d > 0 *)
Frac(kd, n, d) ==
    LET g == Gcd(Abs(n), Abs(d))
        s == IF d < 0 THEN -1 ELSE 1
    IN  [k |-> kd, n |-> (s * n) \div g, d |-> (s * d) \div g]

(* floor(n/d) for d > 0; \div rounds towards minus infinity *)
Floor(n, d) == n \div d

NumKind(b, a) == IF b.k = "int" /\ a.k = "int" THEN "int" ELSE "float"

(* b + a: numbers add, lists concatenate, anything else is a TypeError *)
PyAdd(b, a) ==
    IF IsNumber(b) /\ IsNumber(a)
    THEN [err |-> NoError, val |-> Frac(NumKind(b, a), b.n * a.d + a.n * b.d, b.d * a.d)]
    ELSE IF b.k = "list" /\ a.k = "list"
    THEN [err |-> NoError, val |-> ListV(b.items \o a.items)]
    ELSE [err |-> PyError("TypeError"), val |-> b]

PySub(b, a) ==
    IF IsNumber(b) /\ IsNumber(a)
    THEN [err |-> NoError, val |-> Frac(NumKind(b, a), b.n * a.d - a.n * b.d, b.d * a.d)]
    ELSE [err |-> PyError("TypeError"), val |-> b]

(* b * a: numbers multiply, list * int and int * list repeat the list *)
PyMul(b, a) ==
    IF IsNumber(b) /\ IsNumber(a)
    THEN [err |-> NoError, val |-> Frac(NumKind(b, a), b.n * a.n, b.d * a.d)]
    ELSE IF b.k = "list" /\ a.k = "int"
    THEN [err |-> NoError, val |-> ListV(Repeat(b.items, a.n))]
    ELSE IF b.k = "int" /\ a.k = "list"
    THEN [err |-> NoError, val |-> ListV(Repeat(a.items, b.n))]
    ELSE [err |-> PyError("TypeError"), val |-> b]

(* b / a: true division, always a float; a zero divisor raises *)
PyDiv(b, a) ==
    IF IsNumber(b) /\ IsNumber(a)
    THEN IF a.n = 0
         THEN [err |-> PyError("ZeroDivisionError"), val |-> b]
         ELSE [err |-> NoError, val |-> Frac("float", b.n * a.d, b.d * a.n)]
    ELSE [err |-> PyError("TypeError"), val |-> b]

(* b % a = b - a * floor(b / a): the result takes the sign of a *)
PyMod(b, a) ==
    IF IsNumber(b) /\ IsNumber(a)
    THEN IF a.n = 0
         THEN [err |-> PyError("ZeroDivisionError"), val |-> b]
         ELSE LET q == Frac("float", b.n * a.d, b.d * a.n)
                  f == Floor(q.n, q.d)
              IN  [err |-> NoError,
                   val |-> Frac(NumKind(b, a), b.n * a.d - f * a.n * b.d, b.d * a.d)]
    ELSE [err |-> PyError("TypeError"), val |-> b]

-----------------------------------------------------------------------------
(* The builtin registry (builtins.py).  Every function takes the runtime's *)
(* stack and yields the exception it raises (NoError if none) and the      *)
(* stack it leaves; the top of the stack is the end of the sequence.       *)

(* stack_args with the two numbers of its message exchanged *)
stack_args_swapped(num_args, stack) ==
    IF Len(stack) < num_args THEN ExpectedItems(Len(stack), num_args) ELSE NoError

(* the check of the stack_args wrapper *)
stack_args(num_args, stack) ==
    IF Len(stack) < num_args THEN ExpectedItems(num_args, Len(stack)) ELSE NoError

(* a = stack.pop(); b = stack.pop(); stack.append(b OP a): both operands   *)
(* are gone when the operation itself raises                               *)
Binary(r, stack) ==
    IF r.err # NoError
    THEN [err |-> r.err, stack |-> Drop(stack, 2)]
    ELSE [err |-> NoError, stack |-> Append(Drop(stack, 2), r.val)]

stack_plus(stack) == Binary(PyAdd(Top(stack, 2), Top(stack, 1)), stack)
(* stack_minus with its operands exchanged: a - b *)
stack_minus_swapped(stack) == Binary(PySub(Top(stack, 1), Top(stack, 2)), stack)

stack_minus(stack) == Binary(PySub(Top(stack, 2), Top(stack, 1)), stack)
stack_multiply(stack) == Binary(PyMul(Top(stack, 2), Top(stack, 1)), stack)
stack_divide(stack) == Binary(PyDiv(Top(stack, 2), Top(stack, 1)), stack)
stack_mod(stack) == Binary(PyMod(Top(stack, 2), Top(stack, 1)), stack)

(* dup appending the top value twice *)
dup_twice(stack) ==
    [err |-> NoError, stack |-> Append(Append(stack, Top(stack, 1)), Top(stack, 1))]

dup(stack) == [err |-> NoError, stack |-> Append(stack, Top(stack, 1))]

(* print(stack): the stack is only read *)
print_stack(stack) == [err |-> NoError, stack |-> stack]

(* runtime.stack = [] *)
clear_stack(stack) == [err |-> NoError, stack |-> <<>>]

(* print(stack[-1]) *)
(* a variant of print_top that pops what it prints *)
print_top_pop(stack) == [err |-> NoError, stack |-> Front(stack)]

print_top(stack) == [err |-> NoError, stack |-> stack]

drop_top(stack) == [err |-> NoError, stack |-> Drop(stack, 1)]

(* swap_two appending a twice: b is lost *)
swap_two_lossy(stack) ==
    [err |-> NoError, stack |-> Drop(stack, 2) \o <<Top(stack, 1), Top(stack, 1)>>]

swap_two(stack) ==
    LET a == Top(stack, 1)
        b == Top(stack, 2)
    IN  [err |-> NoError, stack |-> Drop(stack, 2) \o <<a, b>>]

(* rot_three turning the other way: [c, b, a] -> [a, c, b] *)
rot_three_back(stack) ==
    [err |-> NoError,
     stack |-> Drop(stack, 3) \o <<Top(stack, 1), Top(stack, 3), Top(stack, 2)>>]

rot_three(stack) ==
    LET a == Top(stack, 1)
        b == Top(stack, 2)
        c == Top(stack, 3)
    IN  [err |-> NoError, stack |-> Drop(stack, 3) \o <<b, a, c>>]

(* run_quot reading the quotation without popping it *)
run_quot_peek(stack) ==
    IF Top(stack, 1).k # "Quot"
    THEN [err |-> PyError("TypeError"), stack |-> stack]
    ELSE [err |-> NoError, stack |-> stack]

(* run_quot up to its call of runtime.visit_expr: the value is popped      *)
(* before its class is tested                                              *)
run_quot(stack) ==
    LET quot == Top(stack, 1)
    IN  IF quot.k # "Quot"
        THEN [err |-> PyError("TypeError"), stack |-> Drop(stack, 1)]
        ELSE [err |-> NoError, stack |-> Drop(stack, 1)]

BUILTIN_SCOPE ==
    [n \in {"+", "-", "*", "/", "%", "dup", "\\", "stack", "clear", ".", "drop",
            "swap", "rot"} |->
        CASE n = "+" -> "stack_plus"
          [] n = "-" -> "stack_minus"
          [] n = "*" -> "stack_multiply"
          [] n = "/" -> "stack_divide"
          [] n = "%" -> "stack_mod"
          [] n = "dup" -> "dup"
          [] n = "\\" -> "run_quot"
          [] n = "stack" -> "print_stack"
          [] n = "clear" -> "clear_stack"
          [] n = "." -> "print_top"
          [] n = "drop" -> "drop_top"
          [] n = "swap" -> "swap_two"
          [] n = "rot" -> "rot_three"]

(* the argument of the @stack_args decorator of each function *)
NumArgs(func) ==
    CASE func \in {"stack_plus", "stack_minus", "stack_multiply", "stack_divide",
                   "stack_mod", "swap_two"} -> 2
      [] func \in {"dup", "run_quot", "print_top", "drop_top"} -> 1
      [] func \in {"print_stack", "clear_stack"} -> 0
      [] func = "rot_three" -> 3

(* the decorated function: the arity check, then the function itself *)
CallBuiltin(func, stack) ==
    IF stack_args(NumArgs(func), stack) # NoError
    THEN [err |-> stack_args(NumArgs(func), stack), stack |-> stack]
    ELSE CASE func = "stack_plus" -> stack_plus(stack)
           [] func = "stack_minus" -> stack_minus(stack)
           [] func = "stack_multiply" -> stack_multiply(stack)
           [] func = "stack_divide" -> stack_divide(stack)
           [] func = "stack_mod" -> stack_mod(stack)
           [] func = "dup" -> dup(stack)
           [] func = "run_quot" -> run_quot(stack)
           [] func = "print_stack" -> print_stack(stack)
           [] func = "clear_stack" -> clear_stack(stack)
           [] func = "print_top" -> print_top(stack)
           [] func = "drop_top" -> drop_top(stack)
           [] func = "swap_two" -> swap_two(stack)
           [] func = "rot_three" -> rot_three(stack)

-----------------------------------------------------------------------------
(* The RunTime machine (evaluation.py).                                    *)
(*                                                                         *)
(* A machine m is a record:                                                *)
(*   frames  the live RunTime objects, root first; a ListBlock's child is  *)
(*           appended while the block runs, so frames[i].parent = i - 1    *)
(*           and the last frame is the `self` of the running visit method  *)
(*   ctl     the chain of Python calls in progress, innermost last; an     *)
(*           entry [op, atoms, i, py] is a visit method that has a call    *)
(*           outstanding: its loop position and the Python frames it holds *)
(*   py      depth of the Python call stack                                *)
(*   status  "running", "returned" or "raised";  err  the exception        *)

max_recursion_depth == 100

(* CPython's default recursion limit; evaluation never changes it *)
PyRecursionLimit == 1000

(* Python frames beneath RunTime.evaluate: the module and repl() *)
BaseFrames == 2

EmptyScope == [n \in {} |-> Expr(<<>>)]

(* RunTime.__init__ *)
RunTime(parent) ==
    [stack |-> <<>>, scope |-> EmptyScope, parent |-> parent, recursion_depth |-> 0]

Cur(m) == Len(m.frames)
Self(m) == m.frames[Cur(m)]

Entry(op, atoms, py) == [op |-> op, atoms |-> atoms, i |-> 1, py |-> py]

(* an exception propagates to the caller of evaluate: nothing in the       *)
(* interpreter catches it, every call in progress is abandoned and the     *)
(* child frames are dropped with them                                      *)
Raise(m, e) ==
    [m EXCEPT !.frames = <<m.frames[1]>>, !.ctl = <<>>, !.py = BaseFrames,
              !.status = "raised", !.err = e]

(* a Python call that needs n more frames than the stack has left *)
Overflows(m, n) == m.py + n > PyRecursionLimit

(* enter a method that will have a call outstanding *)
Enter(m, e) ==
    IF Overflows(m, e.py)
    THEN Raise(m, PyError("RecursionError"))
    ELSE [m EXCEPT !.ctl = Append(@, e), !.py = @ + e.py]

(* the innermost method returns *)
Return(m) ==
    LET c == Front(m.ctl)
    IN  [m EXCEPT !.ctl = c, !.py = @ - Last(m.ctl).py,
                  !.status = IF c = <<>> THEN "returned" ELSE "running"]

(* the running loop (visit_program, visit_expr) moves to its next element *)
Advance(m) == [m EXCEPT !.ctl[Len(m.ctl)].i = @ + 1]

(* the write of a stack landing on the root frame *)
SetStack_root(m, stack) == [m EXCEPT !.frames[1].stack = stack]

SetStack(m, stack) == [m EXCEPT !.frames[Cur(m)].stack = stack]
SetDepth(m, d) == [m EXCEPT !.frames[Cur(m)].recursion_depth = d]

(* a variant of Bind that starts the scope afresh *)
Bind_fresh(scope, name, expr) == [n \in {name} |-> expr]

Bind(scope, name, expr) ==
    [n \in DOMAIN scope \cup {name} |-> IF n = name THEN expr ELSE scope[n]]

(* visit_decl: self.scope[ident_name] = expr *)
visit_decl(m, decl) ==
    IF Overflows(m, 2)
    THEN Raise(m, PyError("RecursionError"))
    ELSE [m EXCEPT !.frames[Cur(m)].scope = Bind(@, decl.word.name, decl.expr)]

(* visit_literal pushing the node instead of its content *)
visit_literal_node(m, literal) ==
    IF Overflows(m, 2)
    THEN Raise(m, PyError("RecursionError"))
    ELSE SetStack(m, Append(Self(m).stack, literal))

(* visit_literal: self.stack.append(literal.content) *)
visit_literal(m, literal) ==
    IF Overflows(m, 2)
    THEN Raise(m, PyError("RecursionError"))
    ELSE SetStack(m, Append(Self(m).stack, literal.content))

(* visit_quot: self.stack.append(quot) *)
visit_quot(m, quot) ==
    IF Overflows(m, 2)
    THEN Raise(m, PyError("RecursionError"))
    ELSE SetStack(m, Append(Self(m).stack, quot))

(* visit_expr, entered through accept (py = 2) or called by run_quot (1) *)
visit_expr(m, expr, py) == Enter(m, Entry("visit_expr", expr.atoms, py))

(* visit_list up to the return of sub_runtime.evaluate: the child frame is *)
(* created and lst.items is evaluated in it                                *)
visit_list(m, lst) ==
    LET e == Entry("visit_list", <<>>, 3)   \* accept, visit_list, evaluate
    IN  IF Overflows(m, e.py)
        THEN Raise(m, PyError("RecursionError"))
        ELSE visit_expr([m EXCEPT !.frames = Append(@, RunTime(Cur(m))),
                                  !.ctl = Append(@, e), !.py = @ + e.py],
                        lst.items, 2)

(* visit_list extending the stack with the result instead of appending it *)
visit_list_return_extend(m) ==
    LET result == Self(m).stack
        parent == Cur(m) - 1
        self == [m.frames[parent] EXCEPT !.stack = @ \o result]
    IN  Return([m EXCEPT !.frames = Append(SubSeq(m.frames, 1, parent - 1), self)])

(* visit_list after the child returned: result = sub_runtime.stack;        *)
(* self.stack.append(result)                                               *)
visit_list_return(m) ==
    LET result == Self(m).stack
        parent == Cur(m) - 1
        self == [m.frames[parent] EXCEPT !.stack = Append(@, ListV(result))]
    IN  Return([m EXCEPT !.frames = Append(SubSeq(m.frames, 1, parent - 1), self)])

(* a lookup that never walks the parent chain *)
Ancestor_none(m, name) == 0 * Cur(m)

(* the nearest ancestor whose local scope binds name, 0 if there is none:  *)
(* the while loop over cur_runtime.parent                                  *)
Ancestor(m, name) ==
    LET found == {i \in 1..(Cur(m) - 1) : name \in DOMAIN m.frames[i].scope}
    IN  IF found = {} THEN 0 ELSE CHOOSE i \in found : \A j \in found : j <= i

(* func(self) for a registry entry: the wrapper, the function and, for     *)
(* run_quot, its call of visit_expr on the popped quotation; m holds the   *)
(* pending entry of visit_identifier, which returns together with func     *)
(* unless func has a call outstanding                                      *)
call_builtin(m, func) ==
    LET stack == Self(m).stack
        r == CallBuiltin(func, stack)
    IN  IF Overflows(m, 1)
        THEN Raise(m, PyError("RecursionError"))
        ELSE IF r.err.kind = "RunTimeError"
        THEN Raise(m, r.err)
        ELSE IF Overflows(m, 2)
        THEN Raise(m, PyError("RecursionError"))
        ELSE IF r.err # NoError
        THEN Raise(SetStack(m, r.stack), r.err)
        ELSE IF func = "run_quot"
        THEN LET e == Entry("run_quot", <<>>, 2)
                 m1 == SetStack([m EXCEPT !.ctl = Append(@, e), !.py = @ + e.py], r.stack)
             IN  visit_expr(m1, Top(stack, 1).expr, 1)
        ELSE SetStack(m, r.stack)

(* the decrement on the return path of visit_identifier *)
visit_identifier_return(m) == Return(SetDepth(m, Self(m).recursion_depth - 1))

(* the guard with > for >= *)
DepthReached_gt(self) == self.recursion_depth > max_recursion_depth

(* the guard at the head of visit_identifier *)
DepthReached(self) == self.recursion_depth >= max_recursion_depth

(* visit_identifier looking in the registry before the local scope *)
visit_identifier_registry_first(m, identifier) ==
    LET name == identifier.name
        self == Self(m)
        e == Entry("visit_identifier", <<>>, 2)
        m1 == SetDepth([m EXCEPT !.ctl = Append(@, e), !.py = @ + e.py],
                       self.recursion_depth + 1)
    IN  IF Overflows(m, e.py)
        THEN Raise(m, PyError("RecursionError"))
        ELSE IF DepthReached(self)
        THEN Raise(SetDepth(m, 0), MaxRecursion)
        ELSE IF name \in DOMAIN BUILTIN_SCOPE
        THEN LET m2 == call_builtin(m1, BUILTIN_SCOPE[name])
             IN  IF m2.status = "running" /\ Last(m2.ctl).op = "visit_identifier"
                 THEN visit_identifier_return(m2)
                 ELSE m2
        ELSE IF name \in DOMAIN self.scope
        THEN visit_expr(m1, self.scope[name], 2)
        ELSE IF Ancestor(m, name) # 0
        THEN visit_expr(m1, m.frames[Ancestor(m, name)].scope[name], 2)
        ELSE Raise(m1, UnknownIdentifier(name))

(* visit_identifier up to the call it makes; a builtin other than run_quot *)
(* has returned by then and the method returns with it                     *)
visit_identifier(m, identifier) ==
    LET name == identifier.name
        self == Self(m)
        e == Entry("visit_identifier", <<>>, 2)
        m1 == SetDepth([m EXCEPT !.ctl = Append(@, e), !.py = @ + e.py],
                       self.recursion_depth + 1)
    IN  IF Overflows(m, e.py)
        THEN Raise(m, PyError("RecursionError"))
        ELSE IF DepthReached(self)
        THEN Raise(SetDepth(m, 0), MaxRecursion)
        ELSE IF name \in DOMAIN self.scope
        THEN visit_expr(m1, self.scope[name], 2)
        ELSE IF name \in DOMAIN BUILTIN_SCOPE
        THEN LET m2 == call_builtin(m1, BUILTIN_SCOPE[name])
             IN  IF m2.status = "running" /\ Last(m2.ctl).op = "visit_identifier"
                 THEN visit_identifier_return(m2)
                 ELSE m2
        ELSE IF Ancestor(m, name) # 0
        THEN visit_expr(m1, m.frames[Ancestor(m, name)].scope[name], 2)
        ELSE Raise(m1, UnknownIdentifier(name))

(* evaluate: node.accept(self) for a Program or, from visit_list, an Expr *)
evaluate(m, node) ==
    LET m0 == [m EXCEPT !.status = "running", !.err = NoError]
    IN  IF node.k = "Program"
        THEN Enter(m0, Entry("visit_program", node.statements, 3))
        ELSE Enter(m0, Entry("visit_expr", node.atoms, 3))

(* a machine holding one fresh root frame, nothing evaluated yet *)
NewMachine ==
    [frames |-> <<RunTime(0)>>, ctl |-> <<>>, py |-> BaseFrames,
     status |-> "returned", err |-> NoError]

(* the step a running machine takes next: the innermost call in progress   *)
(* and, for a loop, the class of the element it has reached                *)
Kind(m) ==
    IF m.status # "running" THEN "none"
    ELSE LET t == Last(m.ctl)
         IN  IF t.op \in {"visit_program", "visit_expr"}
             THEN IF t.i > Len(t.atoms)
                  THEN t.op \o "_return"
                  ELSE t.atoms[t.i].k
             ELSE t.op \o "_return"

Element(m) == Last(m.ctl).atoms[Last(m.ctl).i]

Step(m) ==
    CASE Kind(m) = "Decl" -> visit_decl(Advance(m), Element(m))
      [] Kind(m) = "Expr" -> visit_expr(Advance(m), Element(m), 2)
      [] Kind(m) = "Literal" -> visit_literal(Advance(m), Element(m))
      [] Kind(m) = "Quot" -> visit_quot(Advance(m), Element(m))
      [] Kind(m) = "List" -> visit_list(Advance(m), Element(m))
      [] Kind(m) = "Identifier" -> visit_identifier(Advance(m), Element(m))
      [] Kind(m) = "visit_identifier_return" -> visit_identifier_return(m)
      [] Kind(m) = "visit_list_return" -> visit_list_return(m)
      [] Kind(m) \in {"visit_program_return", "visit_expr_return", "run_quot_return"}
            -> Return(m)

(* identifier resolutions in progress, over all frames *)
Resolving(m) == Len(SelectSeq(m.ctl, LAMBDA t : t.op = "visit_identifier"))

-----------------------------------------------------------------------------
(* The lexer (lexer.py).  The source is a sequence of one-character        *)
(* strings; pos counts from 0 as in Python, so source[pos] is written      *)
(* l.source[l.pos + 1].  None stands for Python's None.                    *)

None == "None"

StrV(s) == [k |-> "str", s |-> s]
Token(type, value) == [type |-> type, value |-> value]
LexerError(m) == [kind |-> "LexerError", msg |-> m, a |-> 0, b |-> 0, name |-> ""]

NON_IDENTIFIER_SYMBOLS == {" ", ":", "(", ")", "[", "]", "{", "}", "\"", "'", "\n"}
OPERATOR_SYMBOLS == {"+", "-", "*", "/", "%", "="}

Digits == <<"0", "1", "2", "3", "4", "5", "6", "7", "8", "9">>
HexDigits == Digits \o <<"A", "B", "C", "D", "E", "F">>
Upper(c) ==
    CASE c = "a" -> "A" [] c = "b" -> "B" [] c = "c" -> "C" [] c = "d" -> "D"
      [] c = "e" -> "E" [] c = "f" -> "F" [] OTHER -> c
Range(f) == {f[i] : i \in DOMAIN f}
isdigit(c) == c \in Range(Digits)
DigitVal(c) == (CHOOSE i \in DOMAIN HexDigits : HexDigits[i] = Upper(c)) - 1

RECURSIVE Pow(_, _)
Pow(b, n) == IF n = 0 THEN 1 ELSE b * Pow(b, n - 1)

(* int(digits, base) for a sequence of digit characters *)
RECURSIVE ToInt(_, _)
ToInt(ds, base) ==
    IF ds = <<>> THEN 0 ELSE ToInt(Front(ds), base) * base + DigitVal(Last(ds))

(* chr(n): the character with code point n *)
Chr(n) == IF n = 65 THEN "A" ELSE "chr(" \o ToString(n) \o ")"

(* Lexer.__init__ *)
Lexer == [source |-> <<>>, pos |-> 0, current_char |-> None, tokens |-> <<>>,
          status |-> "new", err |-> NoError]

LexRaise(l, e) == [l EXCEPT !.status = "raised", !.err = e]
Failed(l) == l.status = "raised"

(* Lexer.advance *)
advance(l) ==
    LET p == l.pos + 1
    IN  [l EXCEPT !.pos = p,
                  !.current_char = IF p >= Len(l.source) THEN None ELSE l.source[p + 1]]

(* Lexer.consume *)
consume(l, char) ==
    IF l.current_char = char THEN advance(l)
    ELSE IF l.current_char = None THEN LexRaise(l, LexerError("Unexpected EOF"))
    ELSE LexRaise(l, LexerError("Unexpected character"))

(* a lexer state together with the value a helper returns *)
With(l, v) == [l |-> l, val |-> v]

(* while self.current_char == ' ': self.advance() *)
RECURSIVE SkipSpaces(_)
SkipSpaces(l) == IF l.current_char = " " THEN SkipSpaces(advance(l)) ELSE l

(* while self.current_char and self.current_char.isdigit(): res += ... *)
RECURSIVE ReadDigits(_, _)
ReadDigits(l, res) ==
    IF l.current_char # None /\ isdigit(l.current_char)
    THEN ReadDigits(advance(l), Append(res, l.current_char))
    ELSE With(l, res)

(* _get_number_token: int(res), or float(res) when a '.' follows *)
_get_number_token(l) ==
    LET int == ReadDigits(l, <<>>)
    IN  IF int.l.current_char # "."
        THEN With(int.l, Token("LITERAL", IntV(ToInt(int.val, 10))))
        ELSE LET frac == ReadDigits(advance(int.l), <<>>)
             IN  With(frac.l,
                      Token("LITERAL",
                            Frac("float", ToInt(int.val \o frac.val, 10),
                                 Pow(10, Len(frac.val)))))

(* _read_hex_digits: count hex digits, or the error raised at the first    *)
(* character that is none                                                  *)
RECURSIVE _read_hex_digits(_, _, _)
_read_hex_digits(l, count, digits) ==
    IF count = 0 THEN With(l, digits)
    ELSE IF l.current_char # None /\ Upper(l.current_char) \in Range(HexDigits)
    THEN _read_hex_digits(advance(l), count - 1, Append(digits, l.current_char))
    ELSE With(LexRaise(l, LexerError("Expected hex digits after escape sequence")), digits)

escape_map ==
    [c \in {"n", "t", "r", "b", "f", "\\", "\"", "'"} |->
        CASE c = "n" -> "\n" [] c = "t" -> "\t" [] c = "r" -> "\r"
          [] c = "b" -> "chr(8)" [] c = "f" -> "\f" [] OTHER -> c]

HexCount(c) == CASE c = "x" -> 2 [] c = "u" -> 4 [] c = "U" -> 8

(* the while loop of _get_string_token: res and the lexer at its exit, or  *)
(* the error raised inside it                                              *)
RECURSIVE StringBody(_, _, _)
StringBody(l, quot, res) ==
    LET c == l.current_char
    IN  IF c = None \/ c = quot THEN With(l, res)
        ELSE IF c = "\n" THEN With(LexRaise(l, LexerError("Unexpected End of Line")), res)
        ELSE IF c # "\\" THEN StringBody(advance(l), quot, res \o c)
        ELSE LET l1 == advance(l)
                 e == l1.current_char
             IN  IF e = None THEN With(l1, res)
                 ELSE IF e \in DOMAIN escape_map
                 THEN StringBody(advance(l1), quot, res \o escape_map[e])
                 ELSE IF e \in {"x", "u", "U"}
                 THEN LET h == _read_hex_digits(advance(l1), HexCount(e), <<>>)
                      IN  IF Failed(h.l) THEN With(h.l, res)
                          ELSE IF ToInt(h.val, 16) > 1114111
                          THEN With(LexRaise(h.l, PyError("ValueError")), res)
                          ELSE StringBody(h.l, quot, res \o Chr(ToInt(h.val, 16)))
                 ELSE StringBody(advance(l1), quot, (res \o "\\") \o e)

(* _get_string_token *)
_get_string_token(l) ==
    LET quot == l.current_char
        body == StringBody(advance(l), quot, "")
        closed == consume(body.l, quot)
    IN  IF Failed(body.l) THEN With(body.l, Token("LITERAL", StrV(body.val)))
        ELSE With(closed, Token("LITERAL", StrV(body.val)))

(* the while loop of _get_identifier_token *)
RECURSIVE IdentifierBody(_, _)
IdentifierBody(l, res) ==
    IF /\ l.current_char # None
       /\ l.current_char \notin NON_IDENTIFIER_SYMBOLS
       /\ l.current_char \notin OPERATOR_SYMBOLS
    THEN IdentifierBody(advance(l), res \o l.current_char)
    ELSE With(l, res)

(* _get_identifier_token *)
_get_identifier_token(l) ==
    IF l.current_char \in OPERATOR_SYMBOLS
    THEN With(advance(l), Token("IDENTIFIER", l.current_char))
    ELSE LET body == IdentifierBody(l, "")
         IN  With(body.l, Token("IDENTIFIER", body.val))

(* _get_assignment_token: the LexerError of the second consume is caught *)
_get_assignment_token(l) ==
    LET l1 == consume(l, ":")
        l2 == consume(l1, "=")
    IN  IF Failed(l1) THEN With(l1, Token("ASSIGNMENT", ":="))
        ELSE IF Failed(l2) THEN With(l1, Token("IDENTIFIER", ":"))
        ELSE With(l2, Token("ASSIGNMENT", ":="))

(* next_token: the lexer after the call and the token returned.  The       *)
(* operator `in` on a str raises TypeError when its left operand is None.  *)
next_token(l0) ==
    LET l == SkipSpaces(l0)
        c == l.current_char
    IN  IF c = "\n" THEN With(advance(l), Token("NEWLINE", c))
        ELSE IF c = None THEN With(LexRaise(l, PyError("TypeError")), Token("NONE", c))
        ELSE IF c \in {"(", "[", "{"} THEN With(advance(l), Token("PARENTHESIS_L", c))
        ELSE IF c \in {")", "]", "}"} THEN With(advance(l), Token("PARENTHESIS_R", c))
        ELSE IF c = ":" THEN _get_assignment_token(l)
        ELSE IF isdigit(c) THEN _get_number_token(l)
        ELSE IF c \in {"'", "\""} THEN _get_string_token(l)
        ELSE _get_identifier_token(l)

(* Lexer.parse up to its loop: self.source[0] of an empty source raises *)
lexer_parse(l, source) ==
    IF Len(source) = 0
    THEN LexRaise([l EXCEPT !.source = source, !.pos = 0, !.tokens = <<>>],
                  PyError("IndexError"))
    ELSE [l EXCEPT !.source = source, !.pos = 0, !.current_char = source[1],
                   !.tokens = <<>>, !.status = "lexing", !.err = NoError]

(* one iteration of `while self.current_char:` *)
lexer_loop(l) ==
    LET r == next_token(l)
    IN  IF Failed(r.l) THEN r.l
        ELSE [r.l EXCEPT !.tokens = Append(@, r.val)]

-----------------------------------------------------------------------------
(* The parser (parser.py).  index counts from 0 as in Python, so           *)
(* self.tokens[self.index] is written tokens[index + 1].  A parsing method *)
(* yields the exception it raises (NoError if none), the node it returns   *)
(* and the index it leaves.                                                *)

ParserError(m) == [kind |-> "ParserError", msg |-> m, a |-> 0, b |-> 0, name |-> ""]

Parsed(node, index) == [err |-> NoError, node |-> node, index |-> index]
ParseFails(m, index) == [err |-> ParserError(m), node |-> Expr(<<>>), index |-> index]

is_match(left, right) ==
    \/ left = "(" /\ right = ")"
    \/ left = "[" /\ right = "]"
    \/ left = "{" /\ right = "}"

eof(tokens, index) == index = Len(tokens)

(* Parser.consume: the token at index if it has the type, else the error *)
parser_consume(tokens, index, type) ==
    IF index >= Len(tokens) THEN ParseFails("Unexpected EOF", index)
    ELSE IF tokens[index + 1].type # type THEN ParseFails("Expected type but got type", index)
    ELSE Parsed(tokens[index + 1], index + 1)

RECURSIVE _parse_expression(_, _, _)
RECURSIVE _parse_atom(_, _)

(* _parse_expression: the while loop, atoms being the atoms added so far *)
_parse_expression(tokens, index, atoms) ==
    IF \/ eof(tokens, index)
       \/ tokens[index + 1].type \in {"NEWLINE", "PARENTHESIS_R"}
    THEN Parsed(Expr(atoms), index)
    ELSE LET atom == _parse_atom(tokens, index)
         IN  IF atom.err # NoError THEN atom
             ELSE _parse_expression(tokens, atom.index, Append(atoms, atom.node))

_parse_atom(tokens, index) ==
    LET current == tokens[index + 1]
    IN  IF index >= Len(tokens) THEN ParseFails("Unexpected EOF", index)
        ELSE IF current.type = "LITERAL" THEN Parsed(Literal(current.value), index + 1)
        ELSE IF current.type = "IDENTIFIER" THEN Parsed(Identifier(current.value), index + 1)
        ELSE IF current.type = "PARENTHESIS_L"
        THEN LET left == current.value
                 expr == _parse_expression(tokens, index + 1, <<>>)
                 right == parser_consume(tokens, expr.index, "PARENTHESIS_R")
             IN  IF expr.err # NoError THEN expr
                 ELSE IF right.err # NoError THEN right
                 ELSE IF ~is_match(left, right.node.value)
                 THEN ParseFails("Unmatched parentheses", right.index)
                 ELSE IF left = "[" THEN Parsed(Quot(expr.node), right.index)
                 ELSE IF left = "{" THEN Parsed(List(expr.node), right.index)
                 ELSE ParseFails("Unimplemented parentheses", right.index)
        ELSE ParseFails("Unexpected token", index)

_is_declaration(tokens, index) ==
    IF index + 1 >= Len(tokens) THEN FALSE
    ELSE tokens[index + 2].type = "ASSIGNMENT"

_parse_declaration(tokens, index) ==
    LET name_token == parser_consume(tokens, index, "IDENTIFIER")
        assign == parser_consume(tokens, name_token.index, "ASSIGNMENT")
        expr == _parse_expression(tokens, assign.index, <<>>)
    IN  IF name_token.err # NoError THEN name_token
        ELSE IF assign.err # NoError THEN assign
        ELSE IF expr.err # NoError THEN expr
        ELSE Parsed(Decl(Identifier(name_token.node.value), expr.node), expr.index)

(* Parser.__init__ *)
Parser == [tokens |-> <<>>, index |-> 0, program |-> Program(<<>>),
           status |-> "new", err |-> NoError]

(* Parser.parse up to the loop of _parse_program *)
parser_parse(q, tokens) ==
    [q EXCEPT !.tokens = tokens, !.index = 0, !.program = Program(<<>>),
              !.status = "parsing", !.err = NoError]

(* one iteration of `while not self.eof():` in _parse_program *)
_parse_program(q) ==
    LET stmt == IF _is_declaration(q.tokens, q.index)
                THEN _parse_declaration(q.tokens, q.index)
                ELSE _parse_expression(q.tokens, q.index, <<>>)
    IN  IF stmt.err # NoError
        THEN [q EXCEPT !.index = stmt.index, !.status = "raised", !.err = stmt.err]
        ELSE [q EXCEPT !.index = stmt.index,
                       !.program.statements = Append(@, stmt.node)]

-----------------------------------------------------------------------------
(* Values the variables of the other specifications hold.                  *)

Idle == NewMachine

-----------------------------------------------------------------------------
(* The session (repl, evaluation.py:83-108): one root RunTime evaluates    *)
(* the lines it is given, one Program a line; an exception ends the line   *)
(* and the session goes on with the same RunTime.                          *)

MaxLines == 3

Num(n) == Literal(IntV(n))
Ref(n) == Identifier(n)
Stmt(atoms) == Program(<<Expr(atoms)>>)
Def(n, atoms) == Program(<<Decl(Identifier(n), Expr(atoms))>>)

OnePlusTwo == <<Num(1), Num(2), Ref("+")>>

(* dup := 2 and {1 dup} *)
DupIsTwo == Def("dup", <<Num(2)>>)
OneDup == Stmt(<<List(Expr(<<Num(1), Ref("dup")>>))>>)

(* {1 . stack} and {.}: the observing builtins in a block *)
ShowBlock == Stmt(<<List(Expr(<<Num(1), Ref("."), Ref("stack")>>))>>)
ShowNothing == Stmt(<<List(Expr(<<Ref(".")>>))>>)

(* {x x} *)
TwiceX == Stmt(<<List(Expr(<<Ref("x"), Ref("x")>>))>>)

(* {x clear [1 2 +] \}: a block that resolves a name, clears and runs a    *)
(* quotation                                                               *)
BusyBlock ==
    Stmt(<<List(Expr(<<Ref("x"), Ref("clear"), Quot(Expr(OnePlusTwo)), Ref("\\")>>))>>)

Lines ==
    {Stmt(<<Ref(b)>>) : b \in DOMAIN BUILTIN_SCOPE}
    \cup {Stmt(<<Num(n)>>) : n \in {0, 1, 2}}
    \cup {Stmt(<<Ref("x")>>), Stmt(<<Ref("foo")>>),
          Stmt(<<Quot(Expr(OnePlusTwo))>>),
          Stmt(<<List(Expr(OnePlusTwo))>>),
          TwiceX,
          Def("x", <<Ref("x")>>),
          Def("x", <<List(Expr(<<Ref("x")>>))>>),
          Def("x", OnePlusTwo),
          BusyBlock,
          ShowBlock,
          ShowNothing,
          DupIsTwo,
          OneDup,
          Def("z", <<Ref("foo"), Ref("+")>>),
          Program(<<Decl(Identifier("y"), Expr(<<Num(1)>>)), Expr(<<Ref("y"), Ref("y")>>)>>)}

NoLine == Program(<<>>)

Init ==
    /\ rt = NewMachine
    /\ line = NoLine
    /\ pre = RunTime(0)
    /\ nlines = 0
    /\ direct = Idle /\ deferred = Idle /\ qexpr = Expr(<<>>) /\ qnear = FALSE
    /\ lex = Lexer /\ par = Parser

others == <<direct, deferred, qexpr, qnear, lex, par>>

(* runtime.evaluate(ast) for the next line *)
Evaluate ==
    /\ rt.status # "running"
    /\ nlines < MaxLines
    /\ \E p \in Lines :
        /\ line' = p
        /\ rt' = evaluate(rt, p)
    /\ pre' = rt.frames[1]
    /\ nlines' = nlines + 1
    /\ UNCHANGED others

Do(kind) ==
    /\ Kind(rt) = kind
    /\ rt' = Step(rt)
    /\ UNCHANGED <<line, pre, nlines>>
    /\ UNCHANGED others

VisitDecl == Do("Decl")
VisitStatement == Do("Expr")
VisitLiteral == Do("Literal")
VisitQuot == Do("Quot")
VisitList == Do("List")
VisitIdentifier == Do("Identifier")
ReturnIdentifier == Do("visit_identifier_return")
ReturnList == Do("visit_list_return")
ReturnRunQuot == Do("run_quot_return")
ReturnExpr == Do("visit_expr_return")
ReturnProgram == Do("visit_program_return")

Next ==
    \/ Evaluate
    \/ VisitDecl
    \/ VisitStatement
    \/ VisitLiteral
    \/ VisitQuot
    \/ VisitList
    \/ VisitIdentifier
    \/ ReturnIdentifier
    \/ ReturnList
    \/ ReturnRunQuot
    \/ ReturnExpr
    \/ ReturnProgram

Spec == Init /\ [][Next]_vars

-----------------------------------------------------------------------------
(* Properties of the session                                               *)

Root == rt.frames[1]
Finished == rt.status # "running" /\ nlines > 0
Returned == rt.status = "returned" /\ nlines > 0
Raised == rt.status = "raised"

(* the running step resolves an identifier to a registry entry and calls it *)
CallsBuiltin ==
    /\ Kind(rt) = "Identifier"
    /\ ~Overflows(rt, 3)
    /\ ~DepthReached(Self(rt))
    /\ Element(rt).name \notin DOMAIN Self(rt).scope
    /\ Element(rt).name \in DOMAIN BUILTIN_SCOPE

(* C1: a builtin of arity N called on a stack of M < N values raises       *)
(* RunTimeError 'Expected N items on stack but got M', and the stack of    *)
(* the session's frame is left as it was.                                  *)
C1_ArityCheck ==
    [][\A b \in DOMAIN BUILTIN_SCOPE :
        (/\ CallsBuiltin
         /\ Element(rt).name = b
         /\ Len(Self(rt).stack) < NumArgs(BUILTIN_SCOPE[b]))
        => /\ rt'.status = "raised"
           /\ rt'.err = ExpectedItems(NumArgs(BUILTIN_SCOPE[b]), Len(Self(rt).stack))
           /\ rt'.frames[1].stack = rt.frames[1].stack
           /\ (Cur(rt) = 1 => rt'.frames[1].stack = Self(rt).stack)]_vars

C1_Witness ==
    /\ line = Stmt(<<Ref("rot")>>)
    /\ Len(pre.stack) = 2
    /\ Raised
    /\ rt.err = ExpectedItems(3, 2)
    /\ Root.stack = pre.stack

(* C4: every failure of an evaluation is a RunTimeError.                   *)
C4_OnlyRunTimeError == Raised => rt.err.kind = "RunTimeError"

(* C5: the identifier resolutions in progress, over all frames, never      *)
(* exceed the ceiling, and a reference to a self-referential binding ends  *)
(* with RunTimeError 'Maximum recursion depth reached'.                    *)
SelfReferential(scope) ==
    /\ "x" \in DOMAIN scope
    /\ scope["x"] \in {Expr(<<Ref("x")>>), Expr(<<List(Expr(<<Ref("x")>>))>>)}

C5_RecursionBounded ==
    /\ Resolving(rt) <= max_recursion_depth
    /\ (Raised /\ line = Stmt(<<Ref("x")>>) /\ SelfReferential(pre.scope))
        => rt.err = MaxRecursion

(* C6: in a fresh frame, after x := x, a reference to x raises 'Maximum    *)
(* recursion depth reached' when exactly 100 resolutions of x are in       *)
(* progress, and the frame's counter is 0 afterwards.                      *)
C6_Case ==
    /\ line = Stmt(<<Ref("x")>>)
    /\ pre.recursion_depth = 0
    /\ "x" \in DOMAIN pre.scope
    /\ pre.scope["x"] = Expr(<<Ref("x")>>)

C6_ExactlyHundred ==
    /\ [](C6_Case => ~Returned)
    /\ [][(C6_Case /\ rt.status = "running" /\ rt'.status = "raised")
            => /\ rt'.err = MaxRecursion
               /\ Resolving(rt) = 100
               /\ Kind(rt) = "Identifier"
               /\ rt'.frames[1].recursion_depth = 0]_vars

C6_Witness == C6_Case /\ Raised /\ rt.err = MaxRecursion /\ Root.recursion_depth = 0

(* C7: the root frame's recursion counter is 0 whenever a top-level        *)
(* statement starts.                                                       *)
C7_CounterZeroAtStart == nlines > 0 => pre.recursion_depth = 0

(* C9: with x bound to `1 2 +`, each reference to x evaluates the stored   *)
(* expression again: it pushes one more 3 and leaves the binding as it is. *)
C9_Case ==
    /\ line = Stmt(<<Ref("x")>>)
    /\ pre.recursion_depth = 0
    /\ "x" \in DOMAIN pre.scope
    /\ pre.scope["x"] = Expr(OnePlusTwo)

C9_ReEvaluates ==
    (C9_Case /\ Finished)
        => /\ Returned
           /\ Root.stack = Append(pre.stack, IntV(3))
           /\ Root.scope = pre.scope

C9_Witness ==
    /\ C9_Case
    /\ Returned
    /\ Root.stack = <<IntV(3), IntV(3)>>

(* C10: a ListBlock that completes pushes exactly one value on the         *)
(* enclosing stack, the list of the child frame's final stack, and leaves  *)
(* what the enclosing stack held in place.                                 *)
C10_ListPushesOne ==
    /\ [](\A e \in {OnePlusTwo, <<Ref("x"), Ref("x")>>} :
            (line = Stmt(<<List(Expr(e))>>) /\ Returned)
                => /\ Len(Root.stack) = Len(pre.stack) + 1
                   /\ Front(Root.stack) = pre.stack
                   /\ Last(Root.stack).k = "list"
                   /\ (e = OnePlusTwo => Last(Root.stack) = ListV(<<IntV(3)>>)))
    /\ [][Kind(rt) = "visit_list_return"
            => /\ Len(rt'.frames) = Cur(rt) - 1
               /\ rt'.frames[Cur(rt) - 1].stack
                    = Append(rt.frames[Cur(rt) - 1].stack, ListV(Self(rt).stack))
               /\ \A i \in 1..(Cur(rt) - 2) : rt'.frames[i] = rt.frames[i]]_vars

C10_Witness ==
    /\ line = Stmt(<<List(Expr(OnePlusTwo))>>)
    /\ Returned
    /\ pre.stack = <<IntV(1), IntV(2)>>
    /\ Root.stack = <<IntV(1), IntV(2), ListV(<<IntV(3)>>)>>

(* a child frame of a ListBlock is evaluating *)
InChild == rt.status = "running" /\ Cur(rt) > 1

(* the line is one ListBlock *)
IsBlock(p) ==
    /\ Len(p.statements) = 1
    /\ p.statements[1].k = "Expr"
    /\ Len(p.statements[1].atoms) = 1
    /\ p.statements[1].atoms[1].k = "List"

(* C11: while a child frame of a ListBlock evaluates, no ancestor's stack  *)
(* and no ancestor's scope is modified.  For a line that is one ListBlock  *)
(* the root keeps the stack and scope it had before the line for as long   *)
(* as a child lives; and every step taken in a child leaves the stack and  *)
(* scope of every frame beneath it as they are, but for the return of      *)
(* visit_list, which pushes the result on the parent's stack.              *)
C11_AncestorsUntouched ==
    /\ []((IsBlock(line) /\ InChild)
            => Root.stack = pre.stack /\ Root.scope = pre.scope)
    /\ [][InChild
            => \A i \in 1..(Cur(rt) - 1) :
                 i <= Len(rt'.frames)
                 => /\ rt'.frames[i].scope = rt.frames[i].scope
                    /\ \/ Kind(rt) = "visit_list_return" /\ i = Cur(rt) - 1
                       \/ rt'.frames[i].stack = rt.frames[i].stack]_vars

C11_Witness ==
    /\ InChild
    /\ line = BusyBlock
    /\ Self(rt).stack = <<IntV(3)>>
    /\ Root.stack = <<IntV(1)>>
    /\ Root.stack = pre.stack
    /\ "x" \in DOMAIN Root.scope

(* the frames beneath the running one whose local scope binds name *)
Binding(name) == {i \in 1..(Cur(rt) - 1) : name \in DOMAIN rt.frames[i].scope}

(* the running step resolves a name that only an ancestor binds *)
ResolvesInAncestor ==
    /\ Kind(rt) = "Identifier"
    /\ Element(rt).name \notin DOMAIN Self(rt).scope
    /\ Element(rt).name \notin DOMAIN BUILTIN_SCOPE
    /\ Binding(Element(rt).name) # {}

(* C12: a name bound neither in the running frame nor in the registry but  *)
(* in an ancestor's scope resolves to the nearest such ancestor's          *)
(* expression, and that expression is evaluated in the running (innermost) *)
(* frame: no frame is added, no ancestor changes, and what it pushes and   *)
(* pops lands on the innermost stack.  With x bound to `1 2 +` in the      *)
(* root, {x x} leaves one more value on the root stack, the list [3, 3].   *)
C12_InnermostFrame ==
    /\ [][(ResolvesInAncestor /\ rt'.status = "running")
            => LET name == Element(rt).name
                   near == CHOOSE i \in Binding(name) : \A j \in Binding(name) : j <= i
               IN  /\ Len(rt'.frames) = Len(rt.frames)
                   /\ Last(rt'.ctl).op = "visit_expr"
                   /\ Last(rt'.ctl).atoms = rt.frames[near].scope[name].atoms
                   /\ Last(rt'.ctl).i = 1
                   /\ Self(rt').stack = Self(rt).stack
                   /\ \A i \in 1..(Cur(rt) - 1) : rt'.frames[i] = rt.frames[i]]_vars
    /\ []((/\ line = TwiceX
           /\ "x" \in DOMAIN pre.scope
           /\ pre.scope["x"] = Expr(OnePlusTwo)
           /\ Finished)
            => /\ Returned
               /\ Root.stack = Append(pre.stack, ListV(<<IntV(3), IntV(3)>>))
               /\ Root.scope = pre.scope)

C12_Witness ==
    /\ line = TwiceX
    /\ "x" \in DOMAIN pre.scope
    /\ pre.scope["x"] = Expr(OnePlusTwo)
    /\ pre.stack = <<IntV(2)>>
    /\ Returned
    /\ Root.stack = <<IntV(2), ListV(<<IntV(3), IntV(3)>>)>>

(* the running step enters visit_identifier past its guard *)
Resolves ==
    /\ Kind(rt) = "Identifier"
    /\ ~Overflows(rt, 2)
    /\ ~DepthReached(Self(rt))

(* C13: a name is looked up in the running frame's scope, then in the      *)
(* registry, then in the ancestors' scopes.  A name the frame binds runs   *)
(* the bound expression even if it names a builtin; a builtin's name the   *)
(* frame does not bind never runs an ancestor's expression; a name found   *)
(* nowhere raises 'Unknown identifier'.  With dup := 2 in the root, `dup`  *)
(* in the root pushes 2 and {1 dup} pushes the list [1, 1].                *)
C13_ResolutionOrder ==
    /\ [][Resolves =>
            LET name == Element(rt).name
                local == name \in DOMAIN Self(rt).scope
                builtin == name \in DOMAIN BUILTIN_SCOPE
            IN  /\ local
                    => /\ rt'.status = "running"
                       /\ Last(rt'.ctl).op = "visit_expr"
                       /\ Last(rt'.ctl).atoms = Self(rt).scope[name].atoms
                       /\ Self(rt').stack = Self(rt).stack
                /\ (~local /\ builtin /\ rt'.status = "running")
                    => \/ Len(rt'.ctl) = Len(rt.ctl)
                       \/ /\ name = "\\"
                          /\ Last(rt'.ctl).atoms = Top(Self(rt).stack, 1).expr.atoms
                /\ (~local /\ ~builtin /\ Binding(name) = {})
                    => /\ rt'.status = "raised"
                       /\ rt'.err = UnknownIdentifier(name)]_vars
    /\ []((/\ "dup" \in DOMAIN pre.scope
           /\ pre.scope["dup"] = Expr(<<Num(2)>>)
           /\ pre.recursion_depth = 0
           /\ Finished)
            => /\ line = Stmt(<<Ref("dup")>>)
                    => Returned /\ Root.stack = Append(pre.stack, IntV(2))
               /\ line = OneDup
                    => /\ Returned
                       /\ Root.stack = Append(pre.stack, ListV(<<IntV(1), IntV(1)>>)))

C13_Witness ==
    /\ line = OneDup
    /\ "dup" \in DOMAIN pre.scope
    /\ pre.stack = <<IntV(2)>>
    /\ Returned
    /\ Root.stack = <<IntV(2), ListV(<<IntV(1), IntV(1)>>)>>


-----------------------------------------------------------------------------
(* SpecLex: Lexer.parse on every source of at most MaxSrcLen characters    *)
(* of Alphabet, and on the longer SampleSources.                           *)

MaxSrcLen == 3

Alphabet == {" ", "\n", "[", "}", ":", "=", "+", "1", ".", "\"", "\\", "n", "x"}

SampleSources ==
    {<<"\"", "a", "\\", "n", "b", "\"">>,
     <<"\"", "\\", "x", "4", "1", "\"">>,
     <<"\"", "\\", "x", "4", "\"">>,
     <<"x", " ", ":", "=", " ", "1", ".", "5", " ">>,
     <<"1", " ", "2", " ", "+">>}

RECURSIVE SeqsUpTo(_, _)
SeqsUpTo(S, n) ==
    IF n = 0 THEN {<<>>}
    ELSE LET shorter == SeqsUpTo(S, n - 1)
         IN  shorter \cup {Append(q, c) : q \in shorter, c \in S}

Sources == SeqsUpTo(Alphabet, MaxSrcLen) \cup SampleSources

InitLex ==
    /\ lex = Lexer
    /\ rt = Idle /\ line = NoLine /\ pre = RunTime(0) /\ nlines = 0
    /\ direct = Idle /\ deferred = Idle /\ qexpr = Expr(<<>>) /\ qnear = FALSE
    /\ par = Parser

notlex == <<rt, line, pre, nlines, direct, deferred, qexpr, qnear, par>>

(* lexer.parse(source) *)
LexParse ==
    /\ lex.status = "new"
    /\ \E source \in Sources : lex' = lexer_parse(lex, source)
    /\ UNCHANGED notlex

(* tokens.append(self.next_token()) *)
NextToken ==
    /\ lex.status = "lexing"
    /\ lex.current_char # None
    /\ lex' = lexer_loop(lex)
    /\ UNCHANGED notlex

(* return tokens *)
LexReturn ==
    /\ lex.status = "lexing"
    /\ lex.current_char = None
    /\ lex' = [lex EXCEPT !.status = "returned"]
    /\ UNCHANGED notlex

NextLex == LexParse \/ NextToken \/ LexReturn

SpecLex == InitLex /\ [][NextLex]_vars

(* C3: tokenize either returns the tokens or fails with LexerError, and    *)
(* every call of next_token consumes at least one character.               *)
C3_TokenizeTotal ==
    /\ [](lex.status = "raised" => lex.err.kind = "LexerError")
    /\ [][lex.status = "lexing" /\ lex'.status = "lexing" => lex'.pos > lex.pos]_vars

-----------------------------------------------------------------------------
(* SpecParse: Parser.parse on every sequence of at most MaxTokens tokens   *)
(* of TokenAlphabet.                                                       *)

MaxTokens == 3

(* iterations of the loop of _parse_program the model follows *)
MaxStatements == 4

TokenAlphabet ==
    {Token("LITERAL", IntV(1)), Token("IDENTIFIER", "x"), Token("IDENTIFIER", "+"),
     Token("NEWLINE", "\n"), Token("ASSIGNMENT", ":="),
     Token("PARENTHESIS_L", "["), Token("PARENTHESIS_L", "{"), Token("PARENTHESIS_L", "("),
     Token("PARENTHESIS_R", "]"), Token("PARENTHESIS_R", "}"), Token("PARENTHESIS_R", ")")}

TokenSeqs == SeqsUpTo(TokenAlphabet, MaxTokens)

InitParse ==
    /\ par = Parser
    /\ rt = Idle /\ line = NoLine /\ pre = RunTime(0) /\ nlines = 0
    /\ direct = Idle /\ deferred = Idle /\ qexpr = Expr(<<>>) /\ qnear = FALSE
    /\ lex = Lexer

notpar == <<rt, line, pre, nlines, direct, deferred, qexpr, qnear, lex>>

(* parser.parse(tokens) *)
ParseStart ==
    /\ par.status = "new"
    /\ \E tokens \in TokenSeqs : par' = parser_parse(par, tokens)
    /\ UNCHANGED notpar

(* one iteration of the program loop *)
ParseStatement ==
    /\ par.status = "parsing"
    /\ ~eof(par.tokens, par.index)
    /\ Len(par.program.statements) < MaxStatements
    /\ par' = _parse_program(par)
    /\ UNCHANGED notpar

(* return program *)
ParseReturn ==
    /\ par.status = "parsing"
    /\ eof(par.tokens, par.index)
    /\ par' = [par EXCEPT !.status = "returned"]
    /\ UNCHANGED notpar

NextParse == ParseStart \/ ParseStatement \/ ParseReturn

SpecParse == InitParse /\ [][NextParse]_vars

(* C2: every iteration of the program loop advances the token index or     *)
(* ends in a ParserError, so parse ends with a Program or a ParserError.   *)
C2_ParseAdvances ==
    /\ [](par.status = "raised" => par.err.kind = "ParserError")
    /\ [][par.status = "parsing" /\ par'.status = "parsing"
            => par'.index > par.index]_vars

(* the tokens a node was parsed from: a Quot from `[` .. `]`, a List from   *)
(* `{` .. `}` (_parse_atom read backwards)                                 *)
RECURSIVE Unparse(_)
RECURSIVE UnparseAll(_)

Unparse(node) ==
    CASE node.k = "Literal" -> <<Token("LITERAL", node.content)>>
      [] node.k = "Identifier" -> <<Token("IDENTIFIER", node.name)>>
      [] node.k = "Quot" -> <<Token("PARENTHESIS_L", "[")>> \o Unparse(node.expr)
                                \o <<Token("PARENTHESIS_R", "]")>>
      [] node.k = "List" -> <<Token("PARENTHESIS_L", "{")>> \o Unparse(node.items)
                                \o <<Token("PARENTHESIS_R", "}")>>
      [] node.k = "Expr" -> UnparseAll(node.atoms)
      [] node.k = "Decl" -> <<Token("IDENTIFIER", node.word.name), Token("ASSIGNMENT", ":=")>>
                                \o Unparse(node.expr)
      [] node.k = "Program" -> UnparseAll(node.statements)

UnparseAll(nodes) ==
    IF nodes = <<>> THEN <<>> ELSE Unparse(Head(nodes)) \o UnparseAll(Tail(nodes))

(* the tokens from position i on, read with the brackets in open still     *)
(* open, hold an open bracket closed by a bracket of another kind, a       *)
(* closed `(` .. `)` pair, or an open bracket still open at a Newline or   *)
(* at the end; a closing bracket with none open is passed over             *)
RECURSIVE BadBrackets(_, _, _)
BadBrackets(tokens, i, open) ==
    IF i > Len(tokens) THEN open # <<>>
    ELSE LET t == tokens[i]
         IN  CASE t.type = "PARENTHESIS_L" -> BadBrackets(tokens, i + 1, Append(open, t.value))
               [] t.type = "PARENTHESIS_R" ->
                    IF open = <<>> THEN BadBrackets(tokens, i + 1, open)
                    ELSE IF ~is_match(Last(open), t.value) \/ Last(open) = "(" THEN TRUE
                    ELSE BadBrackets(tokens, i + 1, Front(open))
               [] t.type = "NEWLINE" -> open # <<>> \/ BadBrackets(tokens, i + 1, open)
               [] OTHER -> BadBrackets(tokens, i + 1, open)

(* the next iteration of the program loop raises nothing and leaves the    *)
(* index where it is: every later iteration does the same                  *)
Stalls ==
    /\ par.status = "parsing"
    /\ ~eof(par.tokens, par.index)
    /\ _parse_program(par).status = "parsing"
    /\ _parse_program(par).index = par.index

(* every Program returned reads back as the tokens it was parsed from, and *)
(* no Program is returned for tokens with a bad bracket                    *)
ReturnedProgramsMatch ==
    par.status = "returned"
    => /\ Unparse(par.program) = par.tokens
       /\ ~BadBrackets(par.tokens, 1, <<>>)

(* C19: every Program returned has each Quot from `[` .. `]` and each List *)
(* from `{` .. `}`, and tokens holding an open bracket closed by another   *)
(* kind, an open bracket not closed before a Newline or the end, or a      *)
(* `(` .. `)` pair give ParserError and no Program: the parse returns      *)
(* nothing for them and never comes to an iteration that stalls.           *)
C19_BracketKinds ==
    /\ ReturnedProgramsMatch
    /\ BadBrackets(par.tokens, 1, <<>>) => ~Stalls

-----------------------------------------------------------------------------
(* SpecQuot: from one frame (a stack, a scope, recursion counter 0) the    *)
(* expression E is evaluated directly by one machine and as `[E] \` by     *)
(* another.                                                                *)

RunIt == Ref("\\")

QuotExprs ==
    {Expr(<<>>), Expr(OnePlusTwo), Expr(<<Ref("+")>>), Expr(<<Ref("x")>>),
     Expr(<<Ref("foo")>>), Expr(<<RunIt>>), Expr(<<Ref("dup"), RunIt>>),
     Expr(<<Num(1), Num(0), Ref("/")>>), Expr(<<Ref("clear"), Num(2)>>),
     Expr(<<List(Expr(<<Ref("x"), Num(1)>>))>>),
     Expr(<<Quot(Expr(OnePlusTwo)), RunIt>>)}

QuotStacks ==
    {<<>>, <<IntV(1)>>, <<IntV(1), IntV(2)>>, <<Quot(Expr(OnePlusTwo))>>,
     [i \in 1..(max_recursion_depth - 2) |-> IntV(1)],
     [i \in 1..max_recursion_depth |-> IF i = 1 THEN Quot(Expr(<<Num(1)>>)) ELSE Quot(Expr(<<RunIt>>))]}

QuotScopes ==
    {EmptyScope,
     Bind(EmptyScope, "x", Expr(OnePlusTwo)),
     Bind(EmptyScope, "x", Expr(<<Ref("x")>>)),
     Bind(EmptyScope, "x", Expr(<<Ref("drop"), Ref("x")>>)),
     Bind(EmptyScope, "x", Expr(<<List(Expr(<<Ref("x")>>))>>)),
     Bind(EmptyScope, "\\", Expr(<<Num(1)>>))}

Frame(stack, scope) == [RunTime(0) EXCEPT !.stack = stack, !.scope = scope]

InitQuot ==
    /\ \E e \in QuotExprs, stack \in QuotStacks, scope \in QuotScopes :
        LET m == [NewMachine EXCEPT !.frames = <<Frame(stack, scope)>>]
        IN  /\ qexpr = e
            /\ direct = evaluate(m, e)
            /\ deferred = evaluate(m, Expr(<<Quot(e), RunIt>>))
    /\ qnear = FALSE
    /\ rt = Idle /\ line = NoLine /\ pre = RunTime(0) /\ nlines = 0
    /\ lex = Lexer /\ par = Parser

notquot == <<rt, line, pre, nlines, lex, par>>

(* a step of the evaluation of [E] \ *)
StepDeferred ==
    /\ deferred.status = "running"
    /\ deferred' = Step(deferred)
    /\ UNCHANGED <<direct, qexpr, qnear>>
    /\ UNCHANGED notquot

(* a step of the evaluation of E; qnear records that the starting frame    *)
(* entered a resolution with its counter at the ceiling less one           *)
StepDirect ==
    /\ deferred.status # "running"
    /\ direct.status = "running"
    /\ direct' = Step(direct)
    /\ qnear' = (qnear \/ (/\ Kind(direct) = "Identifier"
                          /\ Cur(direct) = 1
                          /\ Self(direct).recursion_depth >= max_recursion_depth - 1))
    /\ UNCHANGED <<deferred, qexpr>>
    /\ UNCHANGED notquot

NextQuot == StepDeferred \/ StepDirect

SpecQuot == InitQuot /\ [][NextQuot]_vars

QuotDone == direct.status # "running" /\ deferred.status # "running"

(* what the caller of evaluate sees: the stack returned, or the exception *)
Outcome(m) ==
    IF m.status = "raised"
    THEN [status |-> "raised", err |-> m.err, stack |-> <<>>]
    ELSE [status |-> "returned", err |-> NoError, stack |-> m.frames[1].stack]

HitsPythonLimit(m) == m.status = "raised" /\ m.err.kind = "RecursionError"

(* C8 as claimed: for every E, stack and scope, [E] \ ends as E does (the  *)
(* same stack returned, or the same exception).  The cases in which \ is   *)
(* rebound or the Python stack runs out are left aside here.               *)
C8_DeferredEqualsDirect ==
    (/\ QuotDone
     /\ "\\" \notin DOMAIN direct.frames[1].scope
     /\ ~HitsPythonLimit(direct)
     /\ ~HitsPythonLimit(deferred))
    => Outcome(deferred) = Outcome(direct)

(* C8 as amended: where \ is the builtin, E by itself never enters a       *)
(* resolution in the frame with the counter at 99 or more, and neither     *)
(* evaluation exhausts the Python stack, [E] \ ends as E does: the same    *)
(* exception or return, and the same stack and scope left in the frame.    *)
C8_DeferredEqualsDirectBelowCeiling ==
    (/\ QuotDone
     /\ "\\" \notin DOMAIN direct.frames[1].scope
     /\ ~qnear
     /\ ~HitsPythonLimit(direct)
     /\ ~HitsPythonLimit(deferred))
    => /\ Outcome(deferred) = Outcome(direct)
       /\ deferred.frames[1].stack = direct.frames[1].stack
       /\ deferred.frames[1].scope = direct.frames[1].scope

C8_Witness ==
    /\ QuotDone
    /\ qexpr = Expr(OnePlusTwo)
    /\ ~qnear
    /\ Outcome(deferred) = [status |-> "returned", err |-> NoError, stack |-> <<IntV(3)>>]
    /\ Outcome(direct) = Outcome(deferred)

-----------------------------------------------------------------------------
(* SpecOps: one line of builtins is evaluated in a fresh root frame whose  *)
(* stack holds up to MaxTop values of Values over one of the stacks of     *)
(* Beneath.                                                                *)

MaxTop == 3

Values ==
    {IntV(-3), IntV(0), IntV(3), IntV(6), Quot(Expr(OnePlusTwo)), ListV(<<IntV(1)>>)}

Beneath == {<<>>, <<ListV(<<>>), IntV(10)>>}

OpStacks == {b \o t : b \in Beneath, t \in SeqsUpTo(Values, MaxTop)}

Op(name) == Stmt(<<Ref(name)>>)
SwapSwap == Stmt(<<Ref("swap"), Ref("swap")>>)
DupDrop == Stmt(<<Ref("dup"), Ref("drop")>>)
RotRotRot == Stmt(<<Ref("rot"), Ref("rot"), Ref("rot")>>)

OpLines == {Op(b) : b \in DOMAIN BUILTIN_SCOPE} \cup {SwapSwap, DupDrop, RotRotRot}

InitOps ==
    /\ \E stack \in OpStacks :
        /\ rt = [NewMachine EXCEPT !.frames = <<Frame(stack, EmptyScope)>>]
        /\ pre = Frame(stack, EmptyScope)
    /\ line = NoLine
    /\ nlines = 0
    /\ direct = Idle /\ deferred = Idle /\ qexpr = Expr(<<>>) /\ qnear = FALSE
    /\ lex = Lexer /\ par = Parser

(* runtime.evaluate(ast) for the one line *)
EvaluateOp ==
    /\ nlines = 0
    /\ \E p \in OpLines :
        /\ line' = p
        /\ rt' = evaluate(rt, p)
    /\ pre' = rt.frames[1]
    /\ nlines' = 1
    /\ UNCHANGED others

(* the next step of the evaluation *)
StepOp ==
    /\ rt.status = "running"
    /\ rt' = Step(rt)
    /\ UNCHANGED <<line, pre, nlines>>
    /\ UNCHANGED others

NextOps == EvaluateOp \/ StepOp

SpecOps == InitOps /\ [][NextOps]_vars

(* the stack before the line holds n values or more *)
Holds(n) == Len(pre.stack) >= n

(* the top two values before the line: a on top, b beneath it *)
TopA == Top(pre.stack, 1)
TopB == Top(pre.stack, 2)
TopC == Top(pre.stack, 3)

IntOperands == Holds(2) /\ TopA.k = "int" /\ TopB.k = "int"

(* the line replaces the top n values with the values top *)
Replaces(n, top) == Returned /\ Root.stack = Drop(pre.stack, n) \o top

(* C14: on a stack ending in the integers b then a (a on top, a # 0 for /  *)
(* and %) each of + - * / % removes both and pushes the one value b OP a,  *)
(* nothing beneath changing: b + a, b - a and b * a as integers, b / a as  *)
(* the float equal to the quotient (6 3 / gives the float 2), b % a as the *)
(* integer r with b = q * a + r that is 0 or has the sign of a.            *)
C14_OperandOrder ==
    (IntOperands /\ Finished)
    => LET a == TopA.n
           b == TopB.n
           v == Last(Root.stack)
       IN  /\ line = Op("+") => Replaces(2, <<IntV(b + a)>>)
           /\ line = Op("-") => Replaces(2, <<IntV(b - a)>>)
           /\ line = Op("*") => Replaces(2, <<IntV(b * a)>>)
           /\ (line = Op("/") /\ a # 0)
               => /\ Replaces(2, <<v>>)
                  /\ v.k = "float" /\ v.d > 0 /\ v.n * a = b * v.d
           /\ (line = Op("%") /\ a # 0)
               => /\ Replaces(2, <<v>>)
                  /\ v.k = "int" /\ v.d = 1
                  /\ \E q \in -20..20 : b = q * a + v.n
                  /\ (a > 0 => 0 <= v.n /\ v.n < a)
                  /\ (a < 0 => a < v.n /\ v.n <= 0)

C14_Witness ==
    /\ line = Op("/")
    /\ pre.stack = <<ListV(<<>>), IntV(10), IntV(6), IntV(3)>>
    /\ Returned
    /\ Root.stack = <<ListV(<<>>), IntV(10), FloatV(2, 1)>>

(* C15: swap followed by swap leaves every stack of two values or more as  *)
(* it was, whatever the values.                                            *)
C15_SwapSwap ==
    (line = SwapSwap /\ Holds(2) /\ Finished)
    => Returned /\ Root.stack = pre.stack

C15_Witness ==
    /\ line = SwapSwap
    /\ pre.stack = <<IntV(6), Quot(Expr(OnePlusTwo)), ListV(<<IntV(1)>>)>>
    /\ Returned
    /\ rt.frames[1] = pre

(* C16: dup on a stack [.., x] gives [.., x, x], and dup followed by drop  *)
(* leaves every non-empty stack as it was.                                 *)
C16_DupDrop ==
    (Holds(1) /\ Finished)
    => /\ line = Op("dup") => Replaces(0, <<TopA>>)
       /\ line = DupDrop => Returned /\ Root.stack = pre.stack

C16_Witness ==
    /\ line = Op("dup")
    /\ pre.stack = <<IntV(3), ListV(<<IntV(1)>>)>>
    /\ Returned
    /\ Root.stack = <<IntV(3), ListV(<<IntV(1)>>), ListV(<<IntV(1)>>)>>

(* C17: rot on a stack of three values or more turns its top three         *)
(* [c, b, a] (a on top) into [b, a, c], the depth and everything beneath   *)
(* unchanged, and three rots leave the stack as it was.                    *)
C17_Rot ==
    (Holds(3) /\ Finished)
    => /\ line = Op("rot")
            => /\ Replaces(3, <<TopB, TopA, TopC>>)
               /\ Len(Root.stack) = Len(pre.stack)
       /\ line = RotRotRot => Returned /\ Root.stack = pre.stack

C17_Witness ==
    /\ line = Op("rot")
    /\ pre.stack = <<ListV(<<>>), IntV(10), IntV(-3), IntV(0), IntV(6)>>
    /\ Returned
    /\ Root.stack = <<ListV(<<>>), IntV(10), IntV(0), IntV(6), IntV(-3)>>

-----------------------------------------------------------------------------
(* Declarations and the observing builtins in the session (Spec).          *)

(* the line is one declaration *)
IsDecl(p) == Len(p.statements) = 1 /\ p.statements[1].k = "Decl"

(* frame g is frame f with name bound to expr and nothing else changed *)
OnlyBinds(f, g, name, expr) ==
    /\ g.stack = f.stack
    /\ g.recursion_depth = f.recursion_depth
    /\ DOMAIN g.scope = DOMAIN f.scope \cup {name}
    /\ g.scope[name] = expr
    /\ \A n \in DOMAIN f.scope \ {name} : g.scope[n] = f.scope[n]

(* C18: a Decl only binds.  Every step that visits `name := expr` leaves   *)
(* the evaluation running with the same frames, the frame's stack and      *)
(* counter as they were and its scope changed at name alone, which now     *)
(* holds expr itself; so a line that is one Decl always returns, whatever  *)
(* expr names, and a Decl of a name already bound replaces the binding.    *)
C18_DeclOnlyBinds ==
    /\ [][Kind(rt) = "Decl"
          => /\ rt'.status = "running"
             /\ Len(rt'.frames) = Len(rt.frames)
             /\ Resolving(rt') = Resolving(rt)
             /\ OnlyBinds(Self(rt), Self(rt'), Element(rt).word.name, Element(rt).expr)
             /\ \A i \in 1..(Cur(rt) - 1) : rt'.frames[i] = rt.frames[i]]_vars
    /\ []((IsDecl(line) /\ Finished)
          => /\ Returned
             /\ OnlyBinds(pre, Root, line.statements[1].word.name, line.statements[1].expr))

C18_Witness ==
    /\ line = Def("x", OnePlusTwo)
    /\ pre.stack = <<IntV(1)>>
    /\ DOMAIN pre.scope = {"x"}
    /\ pre.scope["x"] = Expr(<<Ref("x")>>)
    /\ Returned
    /\ Root.stack = <<IntV(1)>>
    /\ Root.scope["x"] = Expr(OnePlusTwo)

(* C20: a call of `stack` or `.` leaves every frame's stack and scope as   *)
(* they were, whether it returns or raises (`stack` never raises); a call  *)
(* of `clear` never raises and leaves the running frame's stack empty, its *)
(* scope as it was and every frame beneath it unchanged.  So the lines     *)
(* `stack` and `.` end with the root stack they began with, and the line   *)
(* `clear` ends with the root stack empty and the scope it began with.     *)
C20_ObserveAndClear ==
    /\ [][CallsBuiltin
          => /\ Element(rt).name \in {"stack", "."}
                => /\ Element(rt).name = "stack" => rt'.status = "running"
                   /\ rt'.status = "running" => Len(rt'.frames) = Len(rt.frames)
                   /\ \A i \in 1..Len(rt'.frames) :
                        /\ rt'.frames[i].stack = rt.frames[i].stack
                        /\ rt'.frames[i].scope = rt.frames[i].scope
             /\ Element(rt).name = "clear"
                => /\ rt'.status = "running"
                   /\ Len(rt'.frames) = Len(rt.frames)
                   /\ Self(rt').stack = <<>>
                   /\ Self(rt').scope = Self(rt).scope
                   /\ \A i \in 1..(Cur(rt) - 1) : rt'.frames[i] = rt.frames[i]]_vars
    /\ []((Finished /\ line \in {Stmt(<<Ref("stack")>>), Stmt(<<Ref(".")>>)})
          => Root.stack = pre.stack /\ Root.scope = pre.scope)
    /\ []((Finished /\ line = Stmt(<<Ref("clear")>>))
          => Returned /\ Root.stack = <<>> /\ Root.scope = pre.scope)

C20_Witness ==
    /\ line = ShowBlock
    /\ InChild
    /\ Last(rt.ctl).i = 4
    /\ Self(rt).stack = <<IntV(1)>>
    /\ Root.stack = <<IntV(2), IntV(0)>>
    /\ Root.stack = pre.stack

====
